---- MODULE Spec2Model ----
(***************************************************************************)
(* A model of src/parse.rs: the nom-combinator parser of the brace literal *)
(* language and the accessors of Value.  Text is a sequence of one         *)
(* character strings.  Every parser is an operator from the input to an    *)
(* IResult: Ok(rest, out) or Error.  All combinators used by the source    *)
(* are the "complete" ones, so the only failure is the recoverable         *)
(* Err::Error, on which opt/alt/separated_list0 backtrack.                 *)
(***************************************************************************)
EXTENDS Integers, Sequences, FiniteSets, TLC

VARIABLES
  pc,      \* the position of the caller: "typing", "writing", "ready", "done"
  input,   \* the text handed to the parser
  op,      \* the function the caller applied
  result,  \* what it returned
  stack,   \* the tables a writer has open, innermost last
  recv,    \* the Value an accessor is called on
  arg      \* the name handed to Value::get

vars == <<pc, input, op, result, stack, recv, arg>>

-----------------------------------------------------------------------------
(* Characters and character classes.                                       *)

QUOTE == "\""
BSLASH == "\\"
NL == "\n"

Letters ==
  {"a","b","c","d","e","f","g","h","i","j","k","l","m",
   "n","o","p","q","r","s","t","u","v","w","x","y","z",
   "A","B","C","D","E","F","G","H","I","J","K","L","M",
   "N","O","P","Q","R","S","T","U","V","W","X","Y","Z"}

DigitSeq == <<"0","1","2","3","4","5","6","7","8","9">>

Digits == {DigitSeq[i] : i \in 1..Len(DigitSeq)}

Spaces == {" ", "\t", "\n", "\r"}

DigitVal(c) == (CHOOSE i \in 1..Len(DigitSeq) : DigitSeq[i] = c) - 1

Drop(s, n) == SubSeq(s, n + 1, Len(s))

Take(s, n) == SubSeq(s, 1, n)

RECURSIVE PrefixLen(_, _)
PrefixLen(S, s) ==
  IF s # <<>> /\ Head(s) \in S THEN 1 + PrefixLen(S, Tail(s)) ELSE 0

-----------------------------------------------------------------------------
(* The data model.                                                         *)

Object(t) == [tag |-> "Object", v |-> t]
String(s) == [tag |-> "String", v |-> s]
Float(f) == [tag |-> "Float", v |-> f]
Bool(b) == [tag |-> "Bool", v |-> b]

None == [some |-> FALSE, s |-> <<>>]
Some(s) == [some |-> TRUE, s |-> s]

Ok(rest, out) == [ok |-> TRUE, rest |-> rest, out |-> out]
Error == [ok |-> FALSE, rest |-> <<>>, out |-> <<>>]

-----------------------------------------------------------------------------
(* nom primitives.  A parser that runs after another one takes the result  *)
(* of that one as its parameter.                                           *)

char(c, i) == IF i # <<>> /\ Head(i) = c THEN Ok(Tail(i), c) ELSE Error

tag(t, i) ==
  IF Len(i) >= Len(t) /\ Take(i, Len(t)) = t THEN Ok(Drop(i, Len(t)), t) ELSE Error

none_of(S, i) == IF i # <<>> /\ Head(i) \notin S THEN Ok(Tail(i), Head(i)) ELSE Error

(* The first n characters of i as the output: take_while and take_while1.  *)
split_at(i, n) == Ok(Drop(i, n), Take(i, n))

split_at1(i, n) == IF n = 0 THEN Error ELSE split_at(i, n)

digit1(i) == split_at1(i, PrefixLen(Digits, i))

multispace0(i) == split_at(i, PrefixLen(Spaces, i))

(* alt((a, b)): b is tried on the same input when a fails.                 *)
alt(a, b) == IF a.ok THEN a ELSE b

(* opt(p): the input after p, or the input itself when p fails.            *)
opt_rest(r, i) == IF r.ok THEN r.rest ELSE i

(* map / value: the output of r replaced.                                  *)
map_out(r, o) == IF r.ok THEN Ok(r.rest, o) ELSE Error

ws(i) == multispace0(i)

skip_ws(i) == ws(i).rest

-----------------------------------------------------------------------------
(* Numbers.  str::parse::<f64> of a text the grammar recognised: the value *)
(* is mantissa / 10^scale, kept normalised so that equal numbers are equal *)
(* ("5.50" = "5.5", "-0" = "0" as f64 compares them).                      *)

RECURSIVE DigitsValue(_, _)
DigitsValue(s, acc) ==
  IF s = <<>> THEN acc ELSE DigitsValue(Tail(s), acc * 10 + DigitVal(Head(s)))

RECURSIVE Normalise(_, _)
Normalise(m, sc) ==
  IF m = 0 THEN <<0, 0>>
  ELSE IF sc > 0 /\ m % 10 = 0 THEN Normalise(m \div 10, sc - 1)
  ELSE <<m, sc>>

f64_fraction(body, ip) == IF ip < Len(body) THEN Drop(body, ip + 1) ELSE <<>>

f64_decimal(int, frac) == Normalise(DigitsValue(int \o frac, 0), Len(frac))

f64_unsigned(body, ip) == f64_decimal(Take(body, ip), f64_fraction(body, ip))

f64_signed(neg, n) == <<IF neg THEN 0 - n[1] ELSE n[1], n[2]>>

parse_f64(text) ==
  IF text # <<>> /\ Head(text) = "-"
  THEN f64_signed(TRUE, f64_unsigned(Tail(text), PrefixLen(Digits, Tail(text))))
  ELSE f64_signed(FALSE, f64_unsigned(text, PrefixLen(Digits, text)))

(* opt(tuple((char('.'), digit1))) after the digits d.                     *)
num_fraction(dot) == IF dot.ok THEN digit1(dot.rest) ELSE Error

num_recognized(i, rest) == Ok(rest, Float(parse_f64(Take(i, Len(i) - Len(rest)))))

num_digits(i, d) ==
  IF ~d.ok THEN Error
  ELSE num_recognized(i, opt_rest(num_fraction(char(".", d.rest)), d.rest))

num(i) == num_digits(i, digit1(opt_rest(char("-", i), i)))

-----------------------------------------------------------------------------
(* Strings.                                                                *)

normal(i) == none_of({BSLASH, NL, QUOTE}, i)

(* transform with the escape copied instead of resolved.                   *)
transform_keep_escape(i) == map_out(tag(<<QUOTE>>, i), <<BSLASH, QUOTE>>)

transform(i) == map_out(tag(<<QUOTE>>, i), <<QUOTE>>)

(* nom's escaped_transform(normal, '\\', transform): i is its input, index *)
(* the 0-based offset of the loop, res the builder, remainder the input    *)
(* from index on.                                                          *)
RECURSIVE escaped_transform_loop(_, _, _)

escaped_transformed(i, res, t) ==
  IF ~t.ok THEN Error
  ELSE IF Len(t.rest) = 0 THEN Ok(<<>>, res \o t.out)
  ELSE escaped_transform_loop(i, Len(i) - Len(t.rest), res \o t.out)

escaped_control(i, next, res) ==
  IF next >= Len(i) THEN Error
  ELSE escaped_transformed(i, res, transform(Drop(i, next)))

escaped_normal(i, index, res, remainder, n) ==
  IF n.ok
  THEN IF Len(n.rest) = 0 THEN Ok(<<>>, Append(res, n.out))
       ELSE IF Len(n.rest) = Len(i) THEN Ok(remainder, Append(res, n.out))
       ELSE escaped_transform_loop(i, Len(i) - Len(n.rest), Append(res, n.out))
  ELSE IF Head(remainder) = BSLASH THEN escaped_control(i, index + 1, res)
  ELSE IF index = 0 THEN Error
  ELSE Ok(remainder, res)

escaped_remainder(i, index, res, remainder) ==
  escaped_normal(i, index, res, remainder, normal(remainder))

escaped_transform_loop(i, index, res) ==
  IF index >= Len(i) THEN Ok(Drop(i, index), res)
  ELSE escaped_remainder(i, index, res, Drop(i, index))

escaped_transform(i) == escaped_transform_loop(i, 0, <<>>)

(* delimited(open, body, close): the output of body b once close matched.  *)
closed_by(b, c) == IF c.ok THEN Ok(c.rest, b.out) ELSE Error

(* quoted_close with the closing quote made optional.                      *)
quoted_close_optional(b) ==
  IF ~b.ok THEN Error ELSE Ok(opt_rest(char(QUOTE, b.rest), b.rest), b.out)

quoted_close(b) == IF ~b.ok THEN Error ELSE closed_by(b, char(QUOTE, b.rest))

quoted_body(a) == IF ~a.ok THEN Error ELSE quoted_close(escaped_transform(a.rest))

quoted_string(i) == quoted_body(char(QUOTE, i))

to_String(r) == IF r.ok THEN Ok(r.rest, String(r.out)) ELSE Error

string(i) == to_String(quoted_string(i))

-----------------------------------------------------------------------------
(* Booleans and atoms.                                                     *)

TRUE_WORD == <<"t","r","u","e">>
FALSE_WORD == <<"f","a","l","s","e">>

bool(i) ==
  alt(map_out(tag(TRUE_WORD, i), Bool(TRUE)), map_out(tag(FALSE_WORD, i), Bool(FALSE)))

atom(i) == alt(num(i), alt(string(i), bool(i)))

-----------------------------------------------------------------------------
(* Key names.                                                              *)

(* plain_value_name with is_ascii_alphanumeric for is_ascii_alphabetic.    *)
plain_value_name_alnum(i) == split_at1(i, PrefixLen(Letters \cup Digits \cup {"_"}, i))

plain_value_name(i) == split_at1(i, PrefixLen(Letters \cup {"_"}, i))

bracketed_close(b) == IF ~b.ok THEN Error ELSE closed_by(b, char("]", b.rest))

bracketed_body(a) == IF ~a.ok THEN Error ELSE bracketed_close(quoted_string(a.rest))

bracketed_value_name(i) == bracketed_body(char("[", i))

value_name(i) == alt(plain_value_name(i), bracketed_value_name(i))

-----------------------------------------------------------------------------
(* The table grammar.  value, table and maybe_named_value are mutually     *)
(* recursive, as in the source.                                            *)

RECURSIVE value(_)
RECURSIVE table(_)
RECURSIVE maybe_named_value(_)
RECURSIVE separated_list0_loop(_, _)

(* terminated(delimited(ws, value_name, ws), delimited(ws, char('='), ws)) *)
(* n is the key, e the '=' after it.                                       *)
name_equals(n, e) == IF ~e.ok THEN Error ELSE Ok(skip_ws(e.rest), n.out)

name_key(n) ==
  IF ~n.ok THEN Error ELSE name_equals(n, char("=", skip_ws(skip_ws(n.rest))))

name_prefix(i) == name_key(value_name(skip_ws(i)))

(* pair(opt(k), delimited(ws, value, ws)): k is the key prefix, v the value *)
named_value(k, v) ==
  IF ~v.ok THEN Error
  ELSE Ok(skip_ws(v.rest), <<IF k.ok THEN Some(k.out) ELSE None, v.out>>)

maybe_named(i, k) == named_value(k, value(skip_ws(opt_rest(k, i))))

maybe_named_value(i) == maybe_named(i, name_prefix(i))

(* delimited(ws, char(','), ws) *)
separator_comma(c) == IF c.ok THEN Ok(skip_ws(c.rest), c.out) ELSE Error

separator(i) == separator_comma(char(",", skip_ws(i)))

(* The loop of nom's separated_list0 after the first element: i is the     *)
(* input after the last element, res the elements so far, s the separator  *)
(* and f the element parsed after it.                                      *)

(* list_element with each element pushed at the front.                     *)
list_element_reversed(i, res, f) ==
  IF ~f.ok THEN Ok(i, res) ELSE separated_list0_loop(f.rest, <<f.out>> \o res)

list_element(i, res, f) ==
  IF ~f.ok THEN Ok(i, res) ELSE separated_list0_loop(f.rest, Append(res, f.out))

list_separator(i, res, s) ==
  IF ~s.ok THEN Ok(i, res)
  ELSE IF Len(s.rest) = Len(i) THEN Error
  ELSE list_element(i, res, maybe_named_value(s.rest))

separated_list0_loop(i, res) == list_separator(i, res, separator(i))

list_first(i, f) ==
  IF ~f.ok THEN Ok(i, <<>>) ELSE separated_list0_loop(f.rest, <<f.out>>)

separated_list0(i) == list_first(i, maybe_named_value(i))

(* table: open is the '{', list the entries, close the '}'.                *)
table_close(list, close) ==
  IF ~close.ok THEN Error ELSE Ok(skip_ws(close.rest), Object(list.out))

(* table_entries without the opt(char(',')) after the list.                *)
table_entries_no_comma(list) ==
  IF ~list.ok THEN Error
  ELSE table_close(list, char("}", skip_ws(list.rest)))

table_entries(list) ==
  IF ~list.ok THEN Error
  ELSE table_close(list, char("}", skip_ws(opt_rest(char(",", list.rest), list.rest))))

table_open(open) ==
  IF ~open.ok THEN Error ELSE table_entries(separated_list0(skip_ws(open.rest)))

table(i) == table_open(char("{", skip_ws(i)))

value(i) == alt(atom(i), table(i))

(* The Result of parse: Ok(t), or one of its three errors; rest is the     *)
(* remainder the trailing-data message prints.                             *)
ParseOk(t) == [ok |-> TRUE, err |-> "", rest |-> <<>>, t |-> t]
ParseErr(e, rest) == [ok |-> FALSE, err |-> e, rest |-> rest, t |-> <<>>]

(* parse_match with the remainder after the table not looked at.           *)
parse_match_any_rest(r) ==
  IF ~r.ok THEN ParseErr("nom", <<>>)
  ELSE IF r.out.tag = "Object" THEN ParseOk(r.out.v)
  ELSE ParseErr("unexpected non-object", <<>>)

parse_match(r) ==
  IF ~r.ok THEN ParseErr("nom", <<>>)
  ELSE IF r.out.tag = "Object" /\ r.rest = <<>> THEN ParseOk(r.out.v)
  ELSE IF r.out.tag = "Object" THEN ParseErr("unexpected trailing data", r.rest)
  ELSE ParseErr("unexpected non-object", <<>>)

parse(s) == parse_match(value(s))

-----------------------------------------------------------------------------
(* The accessors of Value.                                                 *)

AccOk(v) == [ok |-> TRUE, err |-> "", v |-> v]
AccErr(e) == [ok |-> FALSE, err |-> e, v |-> <<>>]

Value_table(self) ==
  IF self.tag = "Object" THEN AccOk(self.v) ELSE AccErr("expected table")

Value_string(self) ==
  IF self.tag = "String" THEN AccOk(self.v) ELSE AccErr("expected string")

Value_f64(self) ==
  IF self.tag = "Float" THEN AccOk(self.v) ELSE AccErr("expected float")

(* Iterator::find: the index of the first entry whose name is Some(key), 0 *)
(* when there is none.                                                     *)
RECURSIVE find(_, _, _)

(* find comparing the text of the name and not the Option.                 *)
find_by_text(t, key, n) ==
  IF n > Len(t) THEN 0
  ELSE IF t[n][1].s = key THEN n
  ELSE find(t, key, n + 1)

find(t, key, n) ==
  IF n > Len(t) THEN 0
  ELSE IF t[n][1] = Some(key) THEN n
  ELSE find(t, key, n + 1)

get_found(t, n) == IF n = 0 THEN AccErr("no matching key") ELSE AccOk(t[n][2])

get_table(t, key) == IF ~t.ok THEN t ELSE get_found(t.v, find(t.v, key, 1))

Value_get(self, key) == get_table(Value_table(self), key)

-----------------------------------------------------------------------------
(* Callers.  A caller types a text piece by piece and hands it to one of   *)
(* the functions; nothing is returned before the call.                     *)

MaxLexLen == 7
MaxParseLen == 6

NoResult == [ok |-> FALSE, err |-> "none", rest |-> <<>>, out |-> <<>>, t |-> <<>>]

LexPieces == {<<QUOTE>>, <<BSLASH>>, <<NL>>, <<"a">>, TRUE_WORD, FALSE_WORD}

ParsePieces == {<<"{">>, <<"}">>, <<",">>, <<"=">>, <<"a">>, <<"5">>, <<" ">>, TRUE_WORD}

TypeInit ==
  /\ pc = "typing"
  /\ input = <<>>
  /\ op = ""
  /\ result = NoResult
  /\ stack = <<>>
  /\ recv = <<>>
  /\ arg = <<>>

Type(pieces, max) ==
  /\ pc = "typing"
  /\ \E w \in pieces :
       /\ Len(input) + Len(w) <= max
       /\ input' = input \o w
  /\ UNCHANGED <<pc, op, result, stack, recv, arg>>

Return(f, r) ==
  /\ pc' = "done"
  /\ op' = f
  /\ result' = r
  /\ UNCHANGED <<input, stack, recv, arg>>

(* The text of a table with the typed text as the value of a named entry,  *)
(* as an anonymous entry, or as the quoted part of a bracketed key.        *)
Embedded(f, s) ==
  CASE f = "parse_value" -> <<"{", "a", "=">> \o s \o <<"}">>
    [] f = "parse_anon" -> <<"{">> \o s \o <<"}">>
    [] f = "parse_key" -> <<"{", "[">> \o s \o <<"]", "=", "5", "}">>

LexString == pc = "typing" /\ Return("string", string(input))

LexBool == pc = "typing" /\ Return("bool", bool(input))

LexAtom == pc = "typing" /\ Return("atom", atom(input))

LexValue == pc = "typing" /\ Return("value", value(input))

ParseEmbedded ==
  /\ pc = "typing"
  /\ \E f \in {"parse_value", "parse_anon", "parse_key"} :
       Return(f, parse(Embedded(f, input)))

Parse == pc = "typing" /\ Return("parse", parse(input))

LexNext ==
  \/ Type(LexPieces, MaxLexLen)
  \/ LexString
  \/ LexBool
  \/ LexAtom
  \/ LexValue
  \/ ParseEmbedded

SpecLex == TypeInit /\ [][LexNext]_vars

ParseNext ==
  \/ Type(ParsePieces, MaxParseLen)
  \/ Parse

SpecParse == TypeInit /\ [][ParseNext]_vars

-----------------------------------------------------------------------------
(* A writer of source text.  It writes a document entry by entry, opening  *)
(* and closing nested tables, then lays it out and hands the text to       *)
(* parse.  Every key and atom is kept with the name or value it denotes.   *)

MaxEntries == 2
MaxDepth == 2

NoKey == [text |-> <<>>, name |-> None]

SrcKeys ==
  { NoKey,
    [text |-> <<"a">>, name |-> Some(<<"a">>)],
    [text |-> <<"a", "_", "b">>, name |-> Some(<<"a", "_", "b">>)],
    [text |-> <<"[", QUOTE, "a", BSLASH, QUOTE, " ", "b", QUOTE, "]">>,
     name |-> Some(<<"a", QUOTE, " ", "b">>)] }

SrcAtoms ==
  { [text |-> <<"5">>, value |-> Float(<<5, 0>>)],
    [text |-> <<"-", "5", ".", "5", "0">>, value |-> Float(<<0 - 55, 1>>)],
    [text |-> <<QUOTE, "h", BSLASH, QUOTE, " ", "i", QUOTE>>,
     value |-> String(<<"h", QUOTE, " ", "i">>)],
    [text |-> TRUE_WORD, value |-> Bool(TRUE)] }

TokKinds == {"brace", "comma", "eq", "key", "value"}

(* A layout: the kinds of token written with whitespace around them, and   *)
(* whether every non-empty table gets a comma after its last entry.        *)
Spacings == {{}, TokKinds} \cup {{k} : k \in TokKinds}

Layouts == [spaced : Spacings, trailing : BOOLEAN]

Compact == [spaced |-> {}, trailing |-> FALSE]

Tok(kind, t, fmt) ==
  IF kind \in fmt.spaced THEN <<" ">> \o t \o <<"\n", "\t">> ELSE t

RECURSIVE RenderTable(_, _)
RECURSIVE RenderEntries(_, _)

RenderEntry(e, fmt) ==
  (IF e.key.text = <<>> THEN <<>>
   ELSE Tok("key", e.key.text, fmt) \o Tok("eq", <<"=">>, fmt))
  \o (IF e.kind = "atom" THEN Tok("value", e.text, fmt)
      ELSE RenderTable(e.entries, fmt))

RenderEntries(es, fmt) ==
  IF Len(es) = 1 THEN RenderEntry(es[1], fmt)
  ELSE RenderEntry(es[1], fmt) \o Tok("comma", <<",">>, fmt) \o RenderEntries(Tail(es), fmt)

RenderTable(es, fmt) ==
  Tok("brace", <<"{">>, fmt)
  \o (IF es = <<>> THEN <<>>
      ELSE RenderEntries(es, fmt)
           \o (IF fmt.trailing THEN Tok("comma", <<",">>, fmt) ELSE <<>>))
  \o Tok("brace", <<"}">>, fmt)

(* The Table the written entries denote.                                   *)
RECURSIVE Denoted(_)
Denoted(es) ==
  IF es = <<>> THEN <<>>
  ELSE <<<<es[1].key.name,
           IF es[1].kind = "atom" THEN es[1].value ELSE Object(Denoted(es[1].entries))>>>>
       \o Denoted(Tail(es))

RECURSIVE Size(_)
Size(es) ==
  IF es = <<>> THEN 0
  ELSE 1 + (IF es[1].kind = "atom" THEN 0 ELSE Size(es[1].entries)) + Size(Tail(es))

RECURSIVE Written(_)
Written(st) ==
  IF st = <<>> THEN 0 ELSE Size(st[1].entries) + Written(Tail(st)) + (IF Len(st) > 1 THEN 1 ELSE 0)

Top == stack[Len(stack)]

Put(e) == [stack EXCEPT ![Len(stack)].entries = Append(@, e)]

WriteInit ==
  /\ pc = "writing"
  /\ input = <<>>
  /\ op = ""
  /\ result = NoResult
  /\ stack = <<[key |-> NoKey, entries |-> <<>>]>>
  /\ recv = <<>>
  /\ arg = <<>>

WriteAtom ==
  /\ pc = "writing"
  /\ Written(stack) < MaxEntries
  /\ \E k \in SrcKeys : \E a \in SrcAtoms :
       stack' = Put([key |-> k, kind |-> "atom", text |-> a.text, value |-> a.value])
  /\ UNCHANGED <<pc, input, op, result, recv, arg>>

OpenTable ==
  /\ pc = "writing"
  /\ Written(stack) < MaxEntries
  /\ Len(stack) < MaxDepth
  /\ \E k \in SrcKeys : stack' = Append(stack, [key |-> k, entries |-> <<>>])
  /\ UNCHANGED <<pc, input, op, result, recv, arg>>

CloseTable ==
  /\ pc = "writing"
  /\ Len(stack) > 1
  /\ stack' = [Take(stack, Len(stack) - 1) EXCEPT ![Len(stack) - 1].entries =
                 Append(@, [key |-> Top.key, kind |-> "table", entries |-> Top.entries])]
  /\ UNCHANGED <<pc, input, op, result, recv, arg>>

ParseWritten ==
  /\ pc = "writing"
  /\ Len(stack) = 1
  /\ \E fmt \in Layouts :
       /\ input' = RenderTable(stack[1].entries, fmt)
       /\ result' = parse(input')
  /\ pc' = "done"
  /\ op' = "parse"
  /\ UNCHANGED <<stack, recv, arg>>

WriteNext ==
  \/ WriteAtom
  \/ OpenTable
  \/ CloseTable
  \/ ParseWritten

SpecWrite == WriteInit /\ [][WriteNext]_vars

-----------------------------------------------------------------------------
(* A caller of the accessors, on any Value a caller can hold.              *)

MaxGetEntries == 2

GetNames == {None, Some(<<>>), Some(<<"a">>), Some(<<"b">>)}

GetLeaves == {String(<<"a">>), Float(<<5, 0>>), Bool(TRUE)}

GetInner == GetLeaves \cup {Object(<<>>), Object(<< <<Some(<<"a">>), Float(<<5, 0>>)>> >>)}

GetTables == UNION {[1..n -> GetNames \X GetInner] : n \in 0..MaxGetEntries}

GetValues == GetLeaves \cup {Object(t) : t \in GetTables}

GetKeys == {<<>>, <<"a">>, <<"c">>}

GetInit ==
  /\ pc = "ready"
  /\ input = <<>>
  /\ op = ""
  /\ result = NoResult
  /\ stack = <<>>
  /\ recv \in GetValues
  /\ arg \in GetKeys

Answer(f, r) ==
  /\ pc = "ready"
  /\ pc' = "done"
  /\ op' = f
  /\ result' = r
  /\ UNCHANGED <<input, stack, recv, arg>>

Get == Answer("get", Value_get(recv, arg))

AsTable == Answer("table", Value_table(recv))

AsString == Answer("string", Value_string(recv))

AsF64 == Answer("f64", Value_f64(recv))

GetNext ==
  \/ Get
  \/ AsTable
  \/ AsString
  \/ AsF64

SpecGet == GetInit /\ [][GetNext]_vars

-----------------------------------------------------------------------------
(* Reading a text the way the grammar of the language describes it,        *)
(* independently of the parser: used to state what the parser must do.     *)

IdentChars == Letters \cup {"_"}

(* The literal that starts after an opening quote: how it ends, its        *)
(* content with the escapes resolved, and the text after it.               *)
RECURSIVE ScanLiteral(_, _)
ScanLiteral(s, acc) ==
  IF s = <<>> THEN [kind |-> "unterminated", content |-> acc, rest |-> <<>>]
  ELSE IF Head(s) = QUOTE THEN [kind |-> "closed", content |-> acc, rest |-> Tail(s)]
  ELSE IF Head(s) = NL THEN [kind |-> "newline", content |-> acc, rest |-> s]
  ELSE IF Head(s) = BSLASH
       THEN IF Len(s) >= 2 /\ s[2] = QUOTE
            THEN ScanLiteral(Drop(s, 2), Append(acc, QUOTE))
            ELSE [kind |-> "badescape", content |-> acc, rest |-> s]
  ELSE ScanLiteral(Tail(s), Append(acc, Head(s)))

Literal(s) ==
  IF s # <<>> /\ Head(s) = QUOTE THEN ScanLiteral(Tail(s), <<>>)
  ELSE [kind |-> "none", content |-> <<>>, rest |-> s]

(* The nearest character that is not whitespace before and after k.        *)
RECURSIVE PrevTok(_, _)
PrevTok(s, k) ==
  IF k <= 1 THEN "" ELSE IF s[k - 1] \in Spaces THEN PrevTok(s, k - 1) ELSE s[k - 1]

RECURSIVE NextTok(_, _)
NextTok(s, k) ==
  IF k >= Len(s) THEN "" ELSE IF s[k + 1] \in Spaces THEN NextTok(s, k + 1) ELSE s[k + 1]

HasMisplacedComma(s) ==
  \E k \in 1..Len(s) : s[k] = "," /\ PrevTok(s, k) \in {"{", ","}

Depth(s, k) ==
  Cardinality({j \in 1..k : s[j] = "{"}) - Cardinality({j \in 1..k : s[j] = "}"})

(* One table and whitespace around it, for a text without string literals. *)
ExactlyOneTable(s) ==
  \E b \in 1..Len(s) : \E e \in b..Len(s) :
    /\ \A j \in 1..Len(s) : (j < b \/ j > e) => s[j] \in Spaces
    /\ s[b] = "{"
    /\ s[e] = "}"
    /\ Depth(s, e) = 0
    /\ \A j \in b..(e - 1) : Depth(s, j) > 0

(* The maximal runs of identifier characters of s, as <<first, last>>.     *)
Runs(s) ==
  {<<b, e>> \in (1..Len(s)) \X (1..Len(s)) :
     /\ b <= e
     /\ \A j \in b..e : s[j] \in IdentChars
     /\ (b = 1 \/ s[b - 1] \notin IdentChars)
     /\ (e = Len(s) \/ s[e + 1] \notin IdentChars)}

(* A run is a key, written right after '{' or ',' and followed by '=', or  *)
(* it is the boolean literal in the place of a value.                      *)
RunIsKey(s, r) == PrevTok(s, r[1]) \in {"{", ","} /\ NextTok(s, r[2]) = "="

RunIsBool(s, r) ==
  /\ SubSeq(s, r[1], r[2]) \in {TRUE_WORD, FALSE_WORD}
  /\ PrevTok(s, r[1]) \in {"{", ",", "="}
  /\ NextTok(s, r[2]) \in {",", "}"}

KeysWellFormed(s) == \A r \in Runs(s) : RunIsKey(s, r) \/ RunIsBool(s, r)

(* Every '=' follows a key and is followed by the start of a value.        *)
EqualsWellFormed(s) ==
  \A k \in 1..Len(s) :
    s[k] = "=" =>
      /\ PrevTok(s, k) \in IdentChars \cup {"]"}
      /\ NextTok(s, k) \in Digits \cup {"-", "{", QUOTE, "t", "f"}

-----------------------------------------------------------------------------
(* Claims about the lexers, under SpecLex.                                 *)

Called(f) == pc = "done" /\ op = f

(* The lexer's result for the literal l, when l is well formed and not     *)
(* empty.                                                                  *)
Resolved(l) ==
  (l.kind = "closed" /\ l.content # <<>>) => result = Ok(l.rest, String(l.content))

(* C6: a double-quoted literal whose content is a non-empty sequence of    *)
(* literal characters and backslash-quote escapes lexes to the String of   *)
(* its content with every escape replaced by one quote character, and the  *)
(* lexer consumes through the closing quote.                               *)
C6_EscapesResolved ==
  (pc = "done" /\ op \in {"string", "atom", "value"}) => Resolved(Literal(input))

C6_Witness ==
  /\ Called("string")
  /\ input = <<QUOTE, BSLASH, QUOTE, "a", BSLASH, QUOTE, QUOTE>>
  /\ result = Ok(<<>>, String(<<QUOTE, "a", QUOTE>>))

(* C7: a literal with no closing quote, with a backslash before anything   *)
(* but a quote, or with a raw newline in it is rejected by the string      *)
(* lexer, by atom and value, and by parse when it stands as a value or as  *)
(* the quoted part of a bracketed key.                                     *)
C7_MalformedStringFails ==
  (pc = "done" /\ Literal(input).kind \in {"unterminated", "badescape", "newline"})
    => ~result.ok

C7_Witness ==
  /\ Called("parse_anon")
  /\ input = <<QUOTE, "a">>
  /\ ~result.ok

(* C8: the boolean lexer does not accept true or false that is immediately *)
(* followed by further identifier characters.                              *)
C8_BoolWholeWord ==
  (pc = "done" /\ op \in {"bool", "atom", "value"}) =>
    \A w \in {TRUE_WORD, FALSE_WORD} :
      (/\ Len(input) > Len(w)
       /\ Take(input, Len(w)) = w
       /\ input[Len(w) + 1] \in IdentChars)
      => ~result.ok

(* C10: the empty literal lexes to String("") and both quotes are          *)
(* consumed; parse accepts it as a value and as a bracketed key.           *)
C10_EmptyStringAccepted ==
  (pc = "done" /\ input = <<QUOTE, QUOTE>>) =>
    /\ op = "string" => result = Ok(<<>>, String(<<>>))
    /\ op = "parse_value" => result = ParseOk(<< <<Some(<<"a">>), String(<<>>)>> >>)
    /\ op = "parse_key" => result = ParseOk(<< <<Some(<<>>), Float(<<5, 0>>)>> >>)

-----------------------------------------------------------------------------
(* Claims about parse on raw text, under SpecParse.                        *)

(* C1: a table with a comma before its first entry, or with more than one  *)
(* comma after its last entry, is rejected.                                *)
C1_MisplacedCommaFails ==
  (Called("parse") /\ HasMisplacedComma(input)) => ~result.ok

(* What parse returns when the first k characters of the input are an     *)
(* accepted table p.                                                       *)
AfterTable(k, p) ==
  p.ok =>
    IF \A j \in (k + 1)..Len(input) : input[j] \in Spaces
    THEN result = p
    ELSE input[k + 1] \notin Spaces =>
           result = ParseErr("unexpected trailing data", Drop(input, k))

(* C2: parse returns a table only when the input is one table with         *)
(* whitespace around it; a top-level atom is the non-object error whatever *)
(* follows; text after an accepted table is the trailing-data error with   *)
(* the unconsumed remainder, and whitespace after it changes nothing.      *)
C2_WholeInputIsOneTable ==
  Called("parse") =>
    /\ result.ok => ExactlyOneTable(input)
    /\ atom(input).ok => result = ParseErr("unexpected non-object", <<>>)
    /\ \A k \in 1..(Len(input) - 1) : AfterTable(k, parse(Take(input, k)))

C2_Witness ==
  /\ Called("parse")
  /\ input = <<"{", "}", " ", "{", "}">>
  /\ result = ParseErr("unexpected trailing data", <<"{", "}">>)

(* C9: in an accepted input every key is followed by '=' and every '=' by  *)
(* a value: a key with no '=', a key with '=' and no value, and a plain    *)
(* key with a character other than a letter or underscore are rejected.    *)
C9_KeyNeedsEqualsAndValue ==
  (Called("parse") /\ result.ok) =>
    KeysWellFormed(input) /\ EqualsWellFormed(input)

C9_Witness ==
  /\ Called("parse")
  /\ input = <<"{", "a", "5", "=", "5", "}">>
  /\ ~result.ok

-----------------------------------------------------------------------------
(* Claims about parse on written documents, under SpecWrite.               *)

(* C3: the table parse returns has exactly one entry per source entry, in  *)
(* source order, in every nested table too; an entry is named exactly when *)
(* the source wrote a key and '=', by the identifier as written or by the  *)
(* resolved content of the bracketed key; duplicate names are all kept.    *)
C3_EntriesAsWritten ==
  Called("parse") => result = ParseOk(Denoted(stack[1].entries))

C3_Witness ==
  /\ Called("parse")
  /\ Len(stack[1].entries) = 2
  /\ stack[1].entries[1].key.text = <<"a">>
  /\ stack[1].entries[2].key.text = <<"a">>
  /\ stack[1].entries[1].text # stack[1].entries[2].text
  /\ result.ok
  /\ Len(result.t) = 2

(* C4: a comma after the last entry of the non-empty tables and whitespace *)
(* around braces, commas, '=', keys and values change nothing: the input   *)
(* is accepted with the table of the same document written compactly.      *)
C4_LayoutInsignificant ==
  Called("parse") =>
    /\ result.ok
    /\ result = parse(RenderTable(stack[1].entries, Compact))

C4_Witness ==
  /\ Called("parse")
  /\ Len(stack[1].entries) = 2
  /\ input = RenderTable(stack[1].entries, [spaced |-> {"comma"}, trailing |-> TRUE])
  /\ input # RenderTable(stack[1].entries, Compact)
  /\ result.ok
  /\ Len(result.t) = 2

-----------------------------------------------------------------------------
(* Claims about the accessors, under SpecGet.                              *)

Matching(t, k) == {i \in 1..Len(t) : t[i][1].some /\ t[i][1].s = k}

Least(S) == CHOOSE i \in S : \A j \in S : i <= j

(* C5: get on an Object returns the value of the first entry named by the  *)
(* argument, anonymous entries matching no name; with no such entry it is  *)
(* the no-matching-key error; on a String, Float or Bool it is the         *)
(* expected-table error.                                                   *)
C5_GetFirstMatch ==
  Called("get") =>
    IF recv.tag # "Object" THEN result = AccErr("expected table")
    ELSE IF Matching(recv.v, arg) = {} THEN result = AccErr("no matching key")
    ELSE result = AccOk(recv.v[Least(Matching(recv.v, arg))][2])

C5_Witness ==
  /\ Called("get")
  /\ arg = <<"a">>
  /\ recv = Object(<< <<Some(<<"a">>), Bool(TRUE)>>, <<Some(<<"a">>), Float(<<5, 0>>)>> >>)
  /\ result = AccOk(Bool(TRUE))

====
